---------------------------- MODULE Spec2Model ----------------------------
(***************************************************************************)
(* A model of the rmlui recipe, recipes/rmlui/4.x/conanfile.py.            *)
(*                                                                         *)
(* Text (version strings, file contents, paths) is modelled as a sequence  *)
(* of one-character strings, so that split, int, find and replace are      *)
(* computed character by character as Python computes them.               *)
(***************************************************************************)
EXTENDS Integers, Sequences, FiniteSets, TLC

VARIABLES
    os,                 \* settings.os
    compiler,           \* str(settings.compiler)
    compiler_version,   \* str(settings.compiler.version), as characters
    cppstd,             \* settings.compiler.get_safe("cppstd")
    requested,          \* the option values the caller supplied
    options,            \* self.options (fPIC may have been removed)
    requires,           \* the references passed to self.requires()
    looked_up,          \* the names generate() looked up in self.dependencies
    tc_variables,       \* tc.variables of the CMakeToolchain built by generate()
    toolchain_generated,\* whether tc.generate() has written the toolchain
    tarball,            \* the upstream content of the two patched files
    cmakelists,         \* content of <source_folder>/CMakeLists.txt
    config_h,           \* content of <source_folder>/Include/RmlUi/Config/Config.h
    pre_cmakelists,     \* CMakeLists.txt as the latest _patch_sources() call found it
    pre_config_h,       \* Config.h as the latest _patch_sources() call found it
    patch_runs,         \* number of _patch_sources() calls made
    has_cmake,          \* hasattr(self, "_cmake")
    log,                \* the file patches and CMake invocations, in order
    cpp_info,           \* self.cpp_info: defines and libs
    warnings,           \* number of self.output.warning() calls made by validate()
    error,              \* the exception the latest hook raised, if any
    calls,              \* number of build()/package() calls made on the instance
    tools_ok,           \* whether CMake's configure, build and install steps succeed
    pc                  \* the hook the orchestrator calls next

vars == <<os, compiler, compiler_version, cppstd, requested, options, requires,
          looked_up, tc_variables, toolchain_generated, tarball, cmakelists,
          config_h, pre_cmakelists, pre_config_h, patch_runs, has_cmake, log,
          cpp_info, warnings, error, calls, tools_ok, pc>>

---------------------------------------------------------------------------
(* Bounds of the model.                                                    *)

\* A version string has at most this many dot-separated components.
MaxVersionParts == 2
\* A file's upstream content is at most this many fragments long.
MaxFragments == 2
\* At most this many build()/package() calls are made on one instance.
MaxCalls == 2

---------------------------------------------------------------------------
(* Python values and text operations.                                      *)

None == "None"

NoError == [type |-> "none", line |-> 0]
Raised(type, line) == [type |-> type, line |-> line]

RECURSIVE Concat(_)
Concat(ss) == IF ss = <<>> THEN <<>> ELSE Head(ss) \o Concat(Tail(ss))

\* s[i:i+len(pat)] == pat, with 1-based i
MatchAt(s, i, pat) ==
    /\ i + Len(pat) - 1 <= Len(s)
    /\ \A k \in 1..Len(pat) : s[i + k - 1] = pat[k]

\* str.find(pat) != -1
str_contains(s, pat) == \E i \in 1..Len(s) : MatchAt(s, i, pat)

\* str.find(pat), 1-based: the first index where pat occurs, 0 when nowhere
str_find(s, pat) ==
    IF str_contains(s, pat)
    THEN CHOOSE i \in 1..Len(s) :
             MatchAt(s, i, pat) /\ \A j \in 1..(i - 1) : ~MatchAt(s, j, pat)
    ELSE 0

\* str.replace(old, new): every non-overlapping occurrence, left to right
RECURSIVE str_replace(_, _, _)
str_replace(s, old, new) ==
    LET i == str_find(s, old)
    IN  IF i = 0 THEN s
        ELSE SubSeq(s, 1, i - 1) \o new
             \o str_replace(SubSeq(s, i + Len(old), Len(s)), old, new)

\* str.split(sep) for a one-character separator
RECURSIVE str_split(_, _)
str_split(s, sep) ==
    IF \A i \in 1..Len(s) : s[i] # sep THEN <<s>>
    ELSE LET i == CHOOSE j \in 1..Len(s) :
                      s[j] = sep /\ \A k \in 1..(j - 1) : s[k] # sep
         IN  <<SubSeq(s, 1, i - 1)>> \o str_split(SubSeq(s, i + 1, Len(s)), sep)

\* sep.join(parts)
RECURSIVE str_join(_, _)
str_join(sep, parts) ==
    IF parts = <<>> THEN <<>>
    ELSE IF Len(parts) = 1 THEN parts[1]
    ELSE parts[1] \o sep \o str_join(sep, Tail(parts))

DigitValue(c) ==
    CASE c = "0" -> 0 [] c = "1" -> 1 [] c = "2" -> 2 [] c = "3" -> 3
      [] c = "4" -> 4 [] c = "5" -> 5 [] c = "6" -> 6 [] c = "7" -> 7
      [] c = "8" -> 8 [] c = "9" -> 9

\* int(s) for a non-empty string of decimal digits
RECURSIVE int(_)
int(s) ==
    IF Len(s) = 1 THEN DigitValue(s[1])
    ELSE int(SubSeq(s, 1, Len(s) - 1)) * 10 + DigitValue(s[Len(s)])

\* min(a, b)
min(a, b) == IF a <= b THEN a ELSE b

\* list < list on lists of integers
RECURSIVE list_lt(_, _)
list_lt(a, b) ==
    IF b = <<>> THEN FALSE
    ELSE IF a = <<>> THEN TRUE
    ELSE IF a[1] # b[1] THEN a[1] < b[1]
    ELSE list_lt(Tail(a), Tail(b))

\* re.escape(s): a backslash before each character special in a pattern
ReSpecial == {"\\", ".", "-", "(", ")", "[", "]", "{", "}", "?", "*", "+",
              "|", "^", "$", "#", "&", "~", " "}

RECURSIVE re_escape(_)
re_escape(s) ==
    IF s = <<>> THEN <<>>
    ELSE (IF s[1] \in ReSpecial THEN <<"\\", s[1]>> ELSE <<s[1]>>)
         \o re_escape(Tail(s))

---------------------------------------------------------------------------
(* The recipe's declarations.                                              *)

\* options
OptionValues ==
    [enable_rtti_and_exceptions : BOOLEAN,
     font_interface : {"freetype", None},
     fPIC : BOOLEAN,
     matrix_mode : {"column_major", "row_major"},
     shared : BOOLEAN,
     with_lua_bindings : BOOLEAN,
     with_thirdparty_containers : BOOLEAN]

default_options ==
    [enable_rtti_and_exceptions |-> TRUE,
     font_interface |-> "freetype",
     fPIC |-> TRUE,
     matrix_mode |-> "column_major",
     shared |-> FALSE,
     with_lua_bindings |-> FALSE,
     with_thirdparty_containers |-> TRUE]

_minimum_compilers_version ==
    [c \in {"apple-clang", "clang", "gcc", "intel", "sun-cc", "Visual Studio"} |->
        CASE c = "apple-clang" -> <<"5", ".", "1">>
          [] c = "clang" -> <<"3", ".", "4">>
          [] c = "gcc" -> <<"5">>
          [] c = "intel" -> <<"1", "7">>
          [] c = "sun-cc" -> <<"5", ".", "1", "5">>
          [] c = "Visual Studio" -> <<"1", "5">>]

_minimum_cpp_standard == 14

\* del self.options.<name>: fails when the option does not exist
options_del(opts, name) ==
    IF name \in DOMAIN opts
    THEN [opts |-> [k \in DOMAIN opts \ {name} |-> opts[k]], error |-> NoError]
    ELSE [opts |-> opts, error |-> Raised("ConanException", 56)]

\* self.options.rm_safe(<name>): no failure when the option does not exist
options_rm_safe(opts, name) == [k \in DOMAIN opts \ {name} |-> opts[k]]


---------------------------------------------------------------------------
(* Option resolution: config_options() and configure().                    *)

config_options(o, opts) ==
    IF o = "Windows" THEN options_del(opts, "fPIC")
    ELSE [opts |-> opts, error |-> NoError]

\* configure() deleting fPIC with del instead of rm_safe.
configure_del(opts) ==
    IF opts.shared
    THEN [options_del(opts, "fPIC") EXCEPT !.error =
             IF @ = NoError THEN NoError ELSE Raised("ConanException", 60)]
    ELSE [opts |-> opts, error |-> NoError]

configure(opts) ==
    IF opts.shared
    THEN [opts |-> options_rm_safe(opts, "fPIC"), error |-> NoError]
    ELSE [opts |-> opts, error |-> NoError]

---------------------------------------------------------------------------
(* validate()                                                              *)

CppstdValues == {None, "98", "gnu98", "11", "gnu11", "14", "gnu14", "17", "gnu17"}

\* The year a cppstd setting or a standard number stands for.
cppstd_year(std) ==
    CASE std \in {"98", "gnu98"} -> 1998
      [] std \in {"11", "gnu11"} -> 2011
      [] std \in {"14", "gnu14"} -> 2014
      [] std \in {"17", "gnu17"} -> 2017

\* check_min_cppstd(self, minimum): TRUE when it raises
check_min_cppstd(std, minimum) == cppstd_year(std) < 2000 + minimum

\* lazy_lt_semver with the truncation to the shorter length left out.
lazy_lt_semver_untruncated(v1, v2) ==
    LET lv1 == [i \in 1..Len(str_split(v1, ".")) |-> int(str_split(v1, ".")[i])]
        lv2 == [i \in 1..Len(str_split(v2, ".")) |-> int(str_split(v2, ".")[i])]
    IN  list_lt(lv1, lv2)

lazy_lt_semver(v1, v2) ==
    LET lv1 == [i \in 1..Len(str_split(v1, ".")) |-> int(str_split(v1, ".")[i])]
        lv2 == [i \in 1..Len(str_split(v2, ".")) |-> int(str_split(v2, ".")[i])]
        min_length == min(Len(lv1), Len(lv2))
    IN  list_lt(SubSeq(lv1, 1, min_length), SubSeq(lv2, 1, min_length))

\* The exception validate() raises (or none) and the warnings it emits.
validate(comp, version, std) ==
    IF std # None /\ check_min_cppstd(std, _minimum_cpp_standard)
    THEN [error |-> Raised("ConanInvalidConfiguration", 64), warnings |-> 0]
    ELSE IF comp \notin DOMAIN _minimum_compilers_version
    THEN [error |-> NoError, warnings |-> 1]
    ELSE IF lazy_lt_semver(version, _minimum_compilers_version[comp])
    THEN [error |-> Raised("ConanInvalidConfiguration", 79), warnings |-> 0]
    ELSE [error |-> NoError, warnings |-> 0]

---------------------------------------------------------------------------
(* requirements() and generate()                                           *)

requirements(opts) ==
    (IF opts.font_interface = "freetype"
     THEN {[name |-> "freetype", version |-> "2.13.0"]} ELSE {})
    \cup (IF opts.with_lua_bindings
          THEN {[name |-> "lua", version |-> "5.4.4"]} ELSE {})
    \cup (IF opts.with_thirdparty_containers
          THEN {[name |-> "robin-hood-hashing", version |-> "3.11.5"]} ELSE {})

\* The include directory of a dependency's package in the local cache.
PackageIncludeDir(name) ==
    CASE name = "freetype" -> <<"/", "c", "/", "f", "t", "/", "p", "/", "i", "n", "c", "l", "u", "d", "e">>
      [] name = "lua" -> <<"/", "c", "/", "l", "u", "a", "/", "p", "/", "i", "n", "c", "l", "u", "d", "e">>
      [] name = "robin-hood-hashing" -> <<"/", "c", "/", "r", "-", "h", "/", "p", "/", "i", "n", "c", "l", "u", "d", "e">>

\* self.dependencies: one entry per declared requirement
dependencies(reqs) ==
    [n \in {r.name : r \in reqs} |->
        [cpp_info |-> [includedirs |-> <<PackageIncludeDir(n)>>]]]

EmptyVariables == [n \in {} |-> FALSE]

\* generate(): tc.variables as the hook leaves it, whether tc.generate() ran,
\* the dependencies looked up, and the exception raised (or none).
generate(opts, reqs) ==
    LET deps == dependencies(reqs)
        v1 == ("BUILD_LUA_BINDINGS" :> opts.with_lua_bindings)
              @@ ("BUILD_SAMPLES" :> FALSE)
              @@ ("CUSTOM_CONFIGURATION" :> TRUE)
    IN  IF "robin-hood-hashing" \notin DOMAIN deps
        THEN [variables |-> v1, generated |-> FALSE,
              looked_up |-> {"robin-hood-hashing"},
              error |-> Raised("KeyError", 87)]
        ELSE LET dirs == deps["robin-hood-hashing"].cpp_info.includedirs
                 v2 == v1
                   @@ ("CUSTOM_INCLUDE_DIRS" :>
                         str_join(<<";">>, [i \in 1..Len(dirs) |-> re_escape(dirs[i])]))
                   @@ ("DISABLE_RTTI_AND_EXCEPTIONS" :> ~opts.enable_rtti_and_exceptions)
                   @@ ("ENABLE_PRECOMPILED_HEADERS" :> TRUE)
                   @@ ("ENABLE_TRACY_PROFILING" :> FALSE)
                   @@ ("MATRIX_ROW_MAJOR" :> (opts.matrix_mode = "row_major"))
                   @@ ("NO_FONT_INTERFACE_DEFAULT" :> (opts.font_interface = None))
                   @@ ("NO_THIRDPARTY_CONTAINERS" :> ~opts.with_thirdparty_containers)
             IN  [variables |-> v2, generated |-> TRUE,
                  looked_up |-> {"robin-hood-hashing"}, error |-> NoError]

---------------------------------------------------------------------------
(* _patch_sources()                                                        *)

\* replace_mapping, in insertion order: <<search, replace>>
replace_mapping ==
    << <<<<"F","R","E","E","T","Y","P","E","_","F","O","U","N","D">>,
         <<"F","r","e","e","t","y","p","e","_","F","O","U","N","D">>>>,
       <<<<"F","R","E","E","T","Y","P","E","_","I","N","C","L","U","D","E","_","D","I","R","S">>,
         <<"F","r","e","e","t","y","p","e","_","I","N","C","L","U","D","E","_","D","I","R","S">>>>,
       <<<<"F","R","E","E","T","Y","P","E","_","L","I","N","K","_","D","I","R","S">>,
         <<"F","r","e","e","t","y","p","e","_","L","I","N","K","_","D","I","R","S">>>>,
       <<<<"F","R","E","E","T","Y","P","E","_","L","I","B","R","A","R","Y">>,
         <<"F","r","e","e","t","y","p","e","_","L","I","B","R","A","R","I","E","S">>>>,
       <<<<"F","R","E","E","T","Y","P","E","_","L","I","B","R","A","R","I","E","S">>,
         <<"F","r","e","e","t","y","p","e","_","L","I","B","R","A","R","I","E","S">>>>,
       <<<<"L","U","A","_","F","O","U","N","D">>,
         <<"l","u","a","_","F","O","U","N","D">>>>,
       <<<<"L","U","A","_","I","N","C","L","U","D","E","_","D","I","R">>,
         <<"l","u","a","_","I","N","C","L","U","D","E","_","D","I","R">>>>,
       <<<<"L","U","A","_","L","I","B","R","A","R","I","E","S">>,
         <<"l","u","a","_","L","I","B","R","A","R","I","E","S">>>>,
       <<<<"i","f","(","P","k","g","H","e","l","p","e","r","s","_","A","V","A","I","L","A","B","L","E",")">>,
         <<"i","f","(","F","A","L","S","E",")">>>> >>

\* "\"../Core/Containers/robin_hood.h\""
RobinHoodInclude ==
    <<"\"",".",".","/","C","o","r","e","/","C","o","n","t","a","i","n","e","r","s","/",
      "r","o","b","i","n","_","h","o","o","d",".","h","\"">>

\* "<robin_hood.h>"
RobinHoodSystemInclude ==
    <<"<","r","o","b","i","n","_","h","o","o","d",".","h",">">>

\* replace_in_file(self, path, search, replace, strict): the file's content
\* afterwards and whether the call raised.
replace_in_file(content, search, replace, strict) ==
    IF ~str_contains(content, search)
    THEN [content |-> content, raised |-> strict]
    ELSE [content |-> str_replace(content, search, replace), raised |-> FALSE]

\* The loop over replace_mapping.items(), from rule i on.
RECURSIVE patch_cmakelists(_, _)
patch_cmakelists(content, i) ==
    IF i > Len(replace_mapping) THEN content
    ELSE patch_cmakelists(
             replace_in_file(content, replace_mapping[i][1],
                             replace_mapping[i][2], FALSE).content,
             i + 1)

\* _patch_sources() patching Config.h whatever with_thirdparty_containers is.
_patch_sources_unconditional(opts, cm, cfg) ==
    LET cm2 == patch_cmakelists(cm, 1)
        r   == replace_in_file(cfg, RobinHoodInclude, RobinHoodSystemInclude, TRUE)
    IN  IF r.raised
        THEN [cmakelists |-> cm2, config_h |-> cfg,
              events |-> <<"patch CMakeLists.txt">>,
              error |-> Raised("ConanException", 144)]
        ELSE [cmakelists |-> cm2, config_h |-> r.content,
              events |-> <<"patch CMakeLists.txt", "patch Config.h">>,
              error |-> NoError]

\* _patch_sources(): both files afterwards, the patches made, the exception.
_patch_sources(opts, cm, cfg) ==
    LET cm2 == patch_cmakelists(cm, 1)
        r   == replace_in_file(cfg, RobinHoodInclude, RobinHoodSystemInclude, TRUE)
    IN  IF opts.with_thirdparty_containers
        THEN IF r.raised
             THEN [cmakelists |-> cm2, config_h |-> cfg,
                   events |-> <<"patch CMakeLists.txt">>,
                   error |-> Raised("ConanException", 144)]
             ELSE [cmakelists |-> cm2, config_h |-> r.content,
                   events |-> <<"patch CMakeLists.txt", "patch Config.h">>,
                   error |-> NoError]
        ELSE [cmakelists |-> cm2, config_h |-> cfg,
              events |-> <<"patch CMakeLists.txt">>, error |-> NoError]

---------------------------------------------------------------------------
(* _configure_cmake(), build(), package() and package_info()               *)

\* _configure_cmake() without the hasattr test: a new helper on every call.
_configure_cmake_uncached(has, configure_ok) ==
    [has_cmake |-> TRUE, events |-> <<"cmake configure">>,
     error |-> IF configure_ok THEN NoError ELSE Raised("ConanException", 115)]

\* _configure_cmake(): configure_ok is whether CMake's configure step succeeds.
_configure_cmake(has, configure_ok) ==
    IF ~has
    THEN [has_cmake |-> TRUE, events |-> <<"cmake configure">>,
          error |-> IF configure_ok THEN NoError ELSE Raised("ConanException", 115)]
    ELSE [has_cmake |-> has, events |-> <<>>, error |-> NoError]

\* build() configuring CMake before it patches the sources.
build_configure_first(opts, cm, cfg, has, configure_ok, build_ok) ==
    LET c == _configure_cmake(has, configure_ok)
        p == _patch_sources(opts, cm, cfg)
        files == [cmakelists |-> p.cmakelists, config_h |-> p.config_h]
    IN  IF c.error # NoError
        THEN [cmakelists |-> cm, config_h |-> cfg, has_cmake |-> c.has_cmake,
              events |-> <<"build()">> \o c.events, error |-> c.error]
        ELSE IF p.error # NoError
        THEN files @@ [has_cmake |-> c.has_cmake,
                       events |-> <<"build()">> \o c.events \o p.events,
                       error |-> p.error]
        ELSE files @@ [has_cmake |-> c.has_cmake,
                       events |-> <<"build()">> \o c.events \o p.events
                                  \o <<"cmake build">>,
                       error |-> IF build_ok THEN NoError
                                 ELSE Raised("ConanException", 148)]

build(opts, cm, cfg, has, configure_ok, build_ok) ==
    LET p == _patch_sources(opts, cm, cfg)
        c == _configure_cmake(has, configure_ok)
        files == [cmakelists |-> p.cmakelists, config_h |-> p.config_h]
    IN  IF p.error # NoError
        THEN files @@ [has_cmake |-> has, events |-> <<"build()">> \o p.events,
                       error |-> p.error]
        ELSE IF c.error # NoError
        THEN files @@ [has_cmake |-> c.has_cmake,
                       events |-> <<"build()">> \o p.events \o c.events,
                       error |-> c.error]
        ELSE files @@ [has_cmake |-> c.has_cmake,
                       events |-> <<"build()">> \o p.events \o c.events
                                  \o <<"cmake build">>,
                       error |-> IF build_ok THEN NoError
                                 ELSE Raised("ConanException", 148)]

package(has, configure_ok, install_ok) ==
    LET c == _configure_cmake(has, configure_ok)
    IN  IF c.error # NoError
        THEN [has_cmake |-> c.has_cmake, events |-> <<"package()">> \o c.events,
              error |-> c.error]
        ELSE IF ~install_ok
        THEN [has_cmake |-> c.has_cmake,
              events |-> <<"package()">> \o c.events \o <<"cmake install">>,
              error |-> Raised("ConanException", 151)]
        ELSE [has_cmake |-> c.has_cmake,
              events |-> <<"package()">> \o c.events \o <<"cmake install", "copy">>,
              error |-> NoError]

\* package_info() publishing the static-linkage define for shared builds.
package_info_shared_define(opts, info) ==
    [defines |-> info.defines
        \o (IF opts.matrix_mode = "row_major" THEN <<"RMLUI_MATRIX_ROW_MAJOR">> ELSE <<>>)
        \o (IF ~opts.enable_rtti_and_exceptions THEN <<"RMLUI_USE_CUSTOM_RTTI">> ELSE <<>>)
        \o (IF opts.shared THEN <<"RMLUI_STATIC_LIB">> ELSE <<>>)
        \o (IF ~opts.with_thirdparty_containers
            THEN <<"RMLUI_NO_THIRDPARTY_CONTAINERS">> ELSE <<>>),
     libs |-> info.libs
        \o (IF opts.with_lua_bindings THEN <<"RmlLua">> ELSE <<>>)
        \o <<"RmlDebugger">>
        \o <<"RmlCore">>]

\* package_info() appending the Lua library after the two fixed libraries.
package_info_lua_last(opts, info) ==
    [defines |-> info.defines
        \o (IF opts.matrix_mode = "row_major" THEN <<"RMLUI_MATRIX_ROW_MAJOR">> ELSE <<>>)
        \o (IF ~opts.enable_rtti_and_exceptions THEN <<"RMLUI_USE_CUSTOM_RTTI">> ELSE <<>>)
        \o (IF ~opts.shared THEN <<"RMLUI_STATIC_LIB">> ELSE <<>>)
        \o (IF ~opts.with_thirdparty_containers
            THEN <<"RMLUI_NO_THIRDPARTY_CONTAINERS">> ELSE <<>>),
     libs |-> info.libs
        \o <<"RmlDebugger">>
        \o <<"RmlCore">>
        \o (IF opts.with_lua_bindings THEN <<"RmlLua">> ELSE <<>>)]

package_info(opts, info) ==
    [defines |-> info.defines
        \o (IF opts.matrix_mode = "row_major" THEN <<"RMLUI_MATRIX_ROW_MAJOR">> ELSE <<>>)
        \o (IF ~opts.enable_rtti_and_exceptions THEN <<"RMLUI_USE_CUSTOM_RTTI">> ELSE <<>>)
        \o (IF ~opts.shared THEN <<"RMLUI_STATIC_LIB">> ELSE <<>>)
        \o (IF ~opts.with_thirdparty_containers
            THEN <<"RMLUI_NO_THIRDPARTY_CONTAINERS">> ELSE <<>>),
     libs |-> info.libs
        \o (IF opts.with_lua_bindings THEN <<"RmlLua">> ELSE <<>>)
        \o <<"RmlDebugger">>
        \o <<"RmlCore">>]

---------------------------------------------------------------------------
(* Inputs.                                                                 *)

VersionComponents ==
    {<<"0">>, <<"1">>, <<"3">>, <<"4">>, <<"5">>, <<"9">>,
     <<"1", "4">>, <<"1", "5">>, <<"1", "6">>, <<"1", "7">>}

\* Dotted versions of at most MaxVersionParts components.
VersionStrings ==
    UNION { { str_join(<<".">>, p) : p \in [1..n -> VersionComponents] } :
            n \in 1..MaxVersionParts }

Compilers ==
    {"apple-clang", "clang", "gcc", "intel", "sun-cc", "Visual Studio", "msvc"}

\* Contents made of at most MaxFragments of the given fragments.
Contents(fragments) ==
    UNION { { Concat(p) : p \in [1..n -> fragments] } : n \in 0..MaxFragments }

\* Pieces of the searched and replaced names: two or three of them make up
\* every search text of replace_mapping but the last, which is a piece itself.
CMakeFragments ==
    { <<"F","R","E","E","T","Y","P","E","_">>, <<"L","U","A","_">>,
      <<"F","r","e","e","t","y","p","e","_">>, <<"l","u","a","_">>,
      <<"F","O","U","N","D">>, <<"I","N","C","L","U","D","E","_","D","I","R">>,
      <<"S">>, <<"L","I","N","K","_","D","I","R","S">>,
      <<"L","I","B","R","A","R","Y">>, <<"L","I","B","R","A","R","I","E","S">>,
      replace_mapping[9][1] }

ConfigFragments ==
    { RobinHoodInclude, RobinHoodSystemInclude, <<"#">>, <<"\"">> }

\* An excerpt of the upstream CMakeLists.txt.
UpstreamCMakeLists ==
    Concat(<< <<"i","f","(">>, replace_mapping[1][1], <<")"," ">>,
              replace_mapping[4][1], <<" ">>, replace_mapping[8][1], <<" ">>,
              replace_mapping[9][1] >>)

\* An excerpt of the upstream Config.h.
UpstreamConfigH ==
    <<"#","i","n","c","l","u","d","e"," ">> \o RobinHoodInclude

AllToolsOk == [configure |-> TRUE, build |-> TRUE, install |-> TRUE]

ToolOutcomes == [configure : BOOLEAN, build : BOOLEAN, install : BOOLEAN]

---------------------------------------------------------------------------
(* The hooks as steps of the recipe instance.                              *)

Advance(err, next) == IF err = NoError THEN next ELSE "failed"

ConfigOptions ==
    /\ pc = "config_options"
    /\ LET r == config_options(os, options)
       IN  /\ options' = r.opts
           /\ error' = r.error
           /\ pc' = Advance(r.error, "configure")
    /\ UNCHANGED <<os, compiler, compiler_version, cppstd, requested, requires,
                   looked_up, tc_variables, toolchain_generated, tarball,
                   cmakelists, config_h, pre_cmakelists, pre_config_h,
                   patch_runs, has_cmake, log, cpp_info, warnings, calls,
                   tools_ok>>

Configure ==
    /\ pc = "configure"
    /\ LET r == configure(options)
       IN  /\ options' = r.opts
           /\ error' = r.error
           /\ pc' = Advance(r.error, "requirements")
    /\ UNCHANGED <<os, compiler, compiler_version, cppstd, requested, requires,
                   looked_up, tc_variables, toolchain_generated, tarball,
                   cmakelists, config_h, pre_cmakelists, pre_config_h,
                   patch_runs, has_cmake, log, cpp_info, warnings, calls,
                   tools_ok>>

Requirements ==
    /\ pc = "requirements"
    /\ requires' = requires \cup requirements(options)
    /\ error' = NoError
    /\ pc' = "validate"
    /\ UNCHANGED <<os, compiler, compiler_version, cppstd, requested, options,
                   looked_up, tc_variables, toolchain_generated, tarball,
                   cmakelists, config_h, pre_cmakelists, pre_config_h,
                   patch_runs, has_cmake, log, cpp_info, warnings, calls,
                   tools_ok>>

Validate ==
    /\ pc = "validate"
    /\ LET r == validate(compiler, compiler_version, cppstd)
       IN  /\ error' = r.error
           /\ warnings' = warnings + r.warnings
           /\ pc' = Advance(r.error, "generate")
    /\ UNCHANGED <<os, compiler, compiler_version, cppstd, requested, options,
                   requires, looked_up, tc_variables, toolchain_generated,
                   tarball, cmakelists, config_h, pre_cmakelists, pre_config_h,
                   patch_runs, has_cmake, log, cpp_info, calls, tools_ok>>

Generate ==
    /\ pc = "generate"
    /\ LET r == generate(options, requires)
       IN  /\ tc_variables' = r.variables
           /\ toolchain_generated' = r.generated
           /\ looked_up' = looked_up \cup r.looked_up
           /\ error' = r.error
           /\ pc' = Advance(r.error, "source")
    /\ UNCHANGED <<os, compiler, compiler_version, cppstd, requested, options,
                   requires, tarball, cmakelists, config_h, pre_cmakelists,
                   pre_config_h, patch_runs, has_cmake, log, cpp_info, warnings,
                   calls, tools_ok>>

\* source(): get() unpacks the upstream sources into the source folder.
Source ==
    /\ pc = "source"
    /\ cmakelists' = tarball.cmakelists
    /\ config_h' = tarball.config_h
    /\ error' = NoError
    /\ pc' = "build"
    /\ UNCHANGED <<os, compiler, compiler_version, cppstd, requested, options,
                   requires, looked_up, tc_variables, toolchain_generated,
                   tarball, pre_cmakelists, pre_config_h, patch_runs, has_cmake,
                   log, cpp_info, warnings, calls, tools_ok>>

\* build(), called by the orchestrator ("build") or again on the same
\* instance ("local").
Build ==
    /\ pc \in {"build", "local"}
    /\ pc = "local" => calls < MaxCalls
    /\ LET r == build(options, cmakelists, config_h, has_cmake,
                      tools_ok.configure, tools_ok.build)
       IN  /\ cmakelists' = r.cmakelists
           /\ config_h' = r.config_h
           /\ has_cmake' = r.has_cmake
           /\ log' = log \o r.events
           /\ error' = r.error
           /\ pc' = IF pc = "local" THEN "local" ELSE Advance(r.error, "package")
    /\ pre_cmakelists' = cmakelists
    /\ pre_config_h' = config_h
    /\ patch_runs' = patch_runs + 1
    /\ calls' = calls + 1
    /\ UNCHANGED <<os, compiler, compiler_version, cppstd, requested, options,
                   requires, looked_up, tc_variables, toolchain_generated,
                   tarball, cpp_info, warnings, tools_ok>>

Package ==
    /\ pc \in {"package", "local"}
    /\ pc = "local" => calls < MaxCalls
    /\ LET r == package(has_cmake, tools_ok.configure, tools_ok.install)
       IN  /\ has_cmake' = r.has_cmake
           /\ log' = log \o r.events
           /\ error' = r.error
           /\ pc' = IF pc = "local" THEN "local"
                    ELSE Advance(r.error, "package_info")
    /\ calls' = calls + 1
    /\ UNCHANGED <<os, compiler, compiler_version, cppstd, requested, options,
                   requires, looked_up, tc_variables, toolchain_generated,
                   tarball, cmakelists, config_h, pre_cmakelists, pre_config_h,
                   patch_runs, cpp_info, warnings, tools_ok>>

PackageInfo ==
    /\ pc = "package_info"
    /\ cpp_info' = package_info(options, cpp_info)
    /\ error' = NoError
    /\ pc' = "done"
    /\ UNCHANGED <<os, compiler, compiler_version, cppstd, requested, options,
                   requires, looked_up, tc_variables, toolchain_generated,
                   tarball, cmakelists, config_h, pre_cmakelists, pre_config_h,
                   patch_runs, has_cmake, log, warnings, calls, tools_ok>>

---------------------------------------------------------------------------
(* Specifications.                                                         *)

\* What every freshly constructed instance has.
Fresh ==
    /\ requires = {}
    /\ looked_up = {}
    /\ tc_variables = EmptyVariables
    /\ toolchain_generated = FALSE
    /\ pre_cmakelists = <<>>
    /\ pre_config_h = <<>>
    /\ patch_runs = 0
    /\ has_cmake = FALSE
    /\ log = <<>>
    /\ cpp_info = [defines |-> <<>>, libs |-> <<>>]
    /\ warnings = 0
    /\ error = NoError
    /\ calls = 0

\* One full run: the orchestrator calls every hook once, in order, and stops
\* at the first exception.
Init ==
    /\ Fresh
    /\ pc = "config_options"
    /\ os \in {"Linux", "Windows"}
    /\ requested \in OptionValues
    /\ options = requested
    /\ \E f \in { <<"gcc", <<"5">>, None>>, <<"gcc", <<"4", ".", "9">>, None>>,
                  <<"msvc", <<"1", "9">>, "14">>, <<"gcc", <<"9">>, "11">> } :
          /\ compiler = f[1]
          /\ compiler_version = f[2]
          /\ cppstd = f[3]
    /\ tarball \in [cmakelists : {UpstreamCMakeLists},
                    config_h : {UpstreamConfigH, <<"#">> \o RobinHoodSystemInclude}]
    /\ cmakelists = <<>>
    /\ config_h = <<>>
    /\ tools_ok \in { AllToolsOk,
                      [AllToolsOk EXCEPT !.configure = FALSE],
                      [AllToolsOk EXCEPT !.build = FALSE],
                      [AllToolsOk EXCEPT !.install = FALSE] }

Next ==
    \/ ConfigOptions
    \/ Configure
    \/ Requirements
    \/ Validate
    \/ Generate
    \/ Source
    \/ Build
    \/ Package
    \/ PackageInfo

Spec == Init /\ [][Next]_vars

\* validate() on every compiler, version and cppstd of the input sets.
InitValidate ==
    /\ Fresh
    /\ pc = "validate"
    /\ os = "Linux"
    /\ requested = default_options
    /\ options = configure(config_options(os, requested).opts).opts
    /\ compiler \in Compilers
    /\ compiler_version \in VersionStrings
    /\ cppstd \in CppstdValues
    /\ tarball = [cmakelists |-> UpstreamCMakeLists, config_h |-> UpstreamConfigH]
    /\ cmakelists = <<>>
    /\ config_h = <<>>
    /\ tools_ok = AllToolsOk

NextValidate == Validate

SpecValidate == InitValidate /\ [][NextValidate]_vars

\* package_info() on every resolved option set.
InitPackageInfo ==
    /\ Fresh
    /\ pc = "package_info"
    /\ os \in {"Linux", "Windows"}
    /\ requested \in OptionValues
    /\ options = configure(config_options(os, requested).opts).opts
    /\ compiler = "gcc"
    /\ compiler_version = <<"9">>
    /\ cppstd = None
    /\ tarball = [cmakelists |-> UpstreamCMakeLists, config_h |-> UpstreamConfigH]
    /\ cmakelists = <<>>
    /\ config_h = <<>>
    /\ tools_ok = AllToolsOk

NextPackageInfo == PackageInfo

SpecPackageInfo == InitPackageInfo /\ [][NextPackageInfo]_vars

\* build() and package() called in any order, at most MaxCalls times, on an
\* instance whose sources are unpacked: on every resolved option set with the
\* upstream files, and on every content of either file with the default
\* options.
InitRebuild ==
    /\ Fresh
    /\ pc = "local"
    /\ os = "Linux"
    /\ compiler = "gcc"
    /\ compiler_version = <<"9">>
    /\ cppstd = None
    /\ \/ /\ requested \in OptionValues
          /\ tarball = [cmakelists |-> UpstreamCMakeLists,
                        config_h |-> UpstreamConfigH]
          /\ tools_ok = AllToolsOk
       \/ /\ requested = default_options
          /\ tarball \in [cmakelists : Contents(CMakeFragments),
                          config_h : {UpstreamConfigH}]
          /\ tools_ok = AllToolsOk
       \/ /\ requested \in
                { [default_options EXCEPT !.with_thirdparty_containers = b] :
                     b \in BOOLEAN }
          /\ tarball \in [cmakelists : {UpstreamCMakeLists},
                          config_h : Contents(ConfigFragments)]
          /\ tools_ok = AllToolsOk
       \/ /\ requested = default_options
          /\ tarball = [cmakelists |-> UpstreamCMakeLists,
                        config_h |-> UpstreamConfigH]
          /\ tools_ok \in ToolOutcomes
    /\ options = configure(config_options(os, requested).opts).opts
    /\ cmakelists = tarball.cmakelists
    /\ config_h = tarball.config_h

NextRebuild == Build \/ Package

SpecRebuild == InitRebuild /\ [][NextRebuild]_vars

---------------------------------------------------------------------------
(* Properties.                                                             *)

\* The dotted version v as its list of integers.
VersionNumbers(v) ==
    [i \in 1..Len(str_split(v, ".")) |-> int(str_split(v, ".")[i])]

\* a is below b on their common prefix: they first differ, within the
\* shorter length, at a component where a is smaller.
PrefixBelow(a, b) ==
    \E i \in 1..min(Len(a), Len(b)) :
        /\ a[i] < b[i]
        /\ \A j \in 1..(i - 1) : a[j] = b[j]

\* validate() gets as far as the compiler-minimum rule.
CppstdAccepted == cppstd \in {None, "14", "gnu14", "17", "gnu17"}

ValidateReturned == pc \in {"generate", "failed"}

CompilerTooOld == error = Raised("ConanInvalidConfiguration", 79)

\* C1: once validate() has run and its cppstd check let it through, it has
\* raised the compiler error if and only if the compiler is a key of the
\* minimum-version table and the installed version is below the minimum on
\* their common prefix of integer components. So 5 against sun-cc's 5.15 and
\* 15 against Visual Studio's 15 are accepted, 14 against 15 and 4.9 against
\* gcc's 5 are rejected, and a compiler missing from the table gets one
\* warning and no error.
C1_CompilerMinimumRule ==
    (ValidateReturned /\ CppstdAccepted) =>
        /\ CompilerTooOld <=>
              /\ compiler \in {"apple-clang", "clang", "gcc", "intel", "sun-cc",
                               "Visual Studio"}
              /\ PrefixBelow(VersionNumbers(compiler_version),
                             VersionNumbers(_minimum_compilers_version[compiler]))
        /\ ~CompilerTooOld => (error = NoError /\ pc = "generate")
        /\ (compiler = "sun-cc" /\ compiler_version = <<"5">>) => ~CompilerTooOld
        /\ (compiler = "Visual Studio" /\ compiler_version = <<"1", "5">>)
              => ~CompilerTooOld
        /\ (compiler = "Visual Studio" /\ compiler_version = <<"1", "4">>)
              => CompilerTooOld
        /\ (compiler = "gcc" /\ compiler_version = <<"4", ".", "9">>)
              => CompilerTooOld
        /\ compiler = "msvc" => (error = NoError /\ warnings = 1)

C1_Witness ==
    /\ pc = "failed"
    /\ cppstd = None
    /\ compiler = "gcc"
    /\ compiler_version = <<"4", ".", "9">>
    /\ CompilerTooOld

\* C2: once config_options() and configure() have both run, fPIC is not an
\* option when the platform is Windows or shared is true, it is an option
\* with the supplied value otherwise, every other option keeps its supplied
\* value, and neither hook has raised.
C2_NoFPIC ==
    pc \notin {"config_options", "configure"} =>
        /\ (os = "Windows" \/ requested.shared) => "fPIC" \notin DOMAIN options
        /\ (os # "Windows" /\ ~requested.shared) =>
              ("fPIC" \in DOMAIN options /\ options.fPIC = requested.fPIC)
        /\ \A k \in DOMAIN options : options[k] = requested[k]
        /\ DOMAIN requested \ {"fPIC"} \subseteq DOMAIN options
        /\ error.line \notin {56, 60}

C2_Witness ==
    /\ pc = "requirements"
    /\ os = "Windows"
    /\ requested.shared
    /\ "fPIC" \notin DOMAIN options
    /\ error = NoError

GenerateCalled ==
    \/ pc \in {"source", "build", "package", "package_info", "done"}
    \/ (pc = "failed" /\ error.line \notin {64, 79})

\* C3: once generate() has been called, the toolchain is written and holds
\* the variables of the translation table: BUILD_LUA_BINDINGS is
\* with_lua_bindings, DISABLE_RTTI_AND_EXCEPTIONS is the negation of
\* enable_rtti_and_exceptions, MATRIX_ROW_MAJOR says whether matrix_mode is
\* row_major, NO_FONT_INTERFACE_DEFAULT says whether font_interface is None,
\* NO_THIRDPARTY_CONTAINERS is the negation of with_thirdparty_containers,
\* and the four fixed variables have their fixed values.
C3_GenerateTable ==
    GenerateCalled =>
        /\ toolchain_generated
        /\ {"BUILD_LUA_BINDINGS", "BUILD_SAMPLES", "CUSTOM_CONFIGURATION",
            "DISABLE_RTTI_AND_EXCEPTIONS", "ENABLE_PRECOMPILED_HEADERS",
            "ENABLE_TRACY_PROFILING", "MATRIX_ROW_MAJOR",
            "NO_FONT_INTERFACE_DEFAULT", "NO_THIRDPARTY_CONTAINERS"}
              \subseteq DOMAIN tc_variables
        /\ tc_variables["BUILD_LUA_BINDINGS"] = options.with_lua_bindings
        /\ tc_variables["DISABLE_RTTI_AND_EXCEPTIONS"]
              = ~options.enable_rtti_and_exceptions
        /\ tc_variables["MATRIX_ROW_MAJOR"] = (options.matrix_mode = "row_major")
        /\ tc_variables["NO_FONT_INTERFACE_DEFAULT"]
              = (options.font_interface # "freetype")
        /\ tc_variables["NO_THIRDPARTY_CONTAINERS"]
              = ~options.with_thirdparty_containers
        /\ tc_variables["BUILD_SAMPLES"] = FALSE
        /\ tc_variables["CUSTOM_CONFIGURATION"] = TRUE
        /\ tc_variables["ENABLE_PRECOMPILED_HEADERS"] = TRUE
        /\ tc_variables["ENABLE_TRACY_PROFILING"] = FALSE

Defines == { cpp_info.defines[i] : i \in DOMAIN cpp_info.defines }

\* C4: once package_info() has run, the define list holds
\* RMLUI_MATRIX_ROW_MAJOR iff matrix_mode is row_major, RMLUI_USE_CUSTOM_RTTI
\* iff enable_rtti_and_exceptions is false, RMLUI_STATIC_LIB iff shared is
\* false, RMLUI_NO_THIRDPARTY_CONTAINERS iff with_thirdparty_containers is
\* false, each at most once and nothing else; with the default options it is
\* exactly the list of RMLUI_STATIC_LIB alone.
C4_Defines ==
    pc = "done" =>
        /\ "RMLUI_MATRIX_ROW_MAJOR" \in Defines
              <=> requested.matrix_mode = "row_major"
        /\ "RMLUI_USE_CUSTOM_RTTI" \in Defines
              <=> ~requested.enable_rtti_and_exceptions
        /\ "RMLUI_STATIC_LIB" \in Defines <=> ~requested.shared
        /\ "RMLUI_NO_THIRDPARTY_CONTAINERS" \in Defines
              <=> ~requested.with_thirdparty_containers
        /\ Defines \subseteq {"RMLUI_MATRIX_ROW_MAJOR", "RMLUI_USE_CUSTOM_RTTI",
                              "RMLUI_STATIC_LIB", "RMLUI_NO_THIRDPARTY_CONTAINERS"}
        /\ Cardinality(Defines) = Len(cpp_info.defines)
        /\ requested = default_options
              => cpp_info.defines = <<"RMLUI_STATIC_LIB">>

C4_Witness ==
    /\ pc = "done"
    /\ requested = default_options
    /\ cpp_info.defines = <<"RMLUI_STATIC_LIB">>

\* C5: once package_info() has run, the library list is exactly RmlDebugger
\* then RmlCore when with_lua_bindings is false, and exactly RmlLua, then
\* RmlDebugger, then RmlCore when it is true, whatever the other options are.
C5_Libs ==
    pc = "done" =>
        cpp_info.libs = IF requested.with_lua_bindings
                        THEN <<"RmlLua", "RmlDebugger", "RmlCore">>
                        ELSE <<"RmlDebugger", "RmlCore">>

C5_Witness ==
    /\ pc = "done"
    /\ requested.with_lua_bindings
    /\ requested.shared
    /\ cpp_info.libs = <<"RmlLua", "RmlDebugger", "RmlCore">>

\* The events of the log that are calls of a hook.
IsCall(e) == e \in {"build()", "package()"}

\* The latest call on the instance was build().
LastCallIsBuild ==
    \E i \in DOMAIN log :
        /\ log[i] = "build()"
        /\ \A j \in (i + 1)..Len(log) : ~IsCall(log[j])

\* The build() call logged at i got through _patch_sources().
PatchCompletedAt(i) ==
    /\ i + 1 <= Len(log)
    /\ log[i + 1] = "patch CMakeLists.txt"
    /\ options.with_thirdparty_containers =>
          (i + 2 <= Len(log) /\ log[i + 2] = "patch Config.h")

\* The first build() call on the instance got through _patch_sources().
FirstPatchCompleted ==
    \E i \in DOMAIN log :
        /\ log[i] = "build()"
        /\ \A j \in 1..(i - 1) : log[j] # "build()"
        /\ PatchCompletedAt(i)

\* C6: when _patch_sources() has run to completion once and is run again,
\* the second run completes too and leaves both files as it found them.
C6_PatchIdempotent ==
    (patch_runs >= 2 /\ FirstPatchCompleted /\ LastCallIsBuild) =>
        /\ error # Raised("ConanException", 144)
        /\ cmakelists = pre_cmakelists
        /\ config_h = pre_config_h

\* C7: after a build() call, Config.h is as the call found it when
\* with_thirdparty_containers is false, whether or not it held the quoted
\* include, and the call did not fail on it; when the option is true the
\* quoted include is replaced by <robin_hood.h> wherever it stood, or the
\* call raised because it stood nowhere. Whatever the options, and even when
\* the Config.h rule raised, no search text of the nine CMakeLists.txt rules
\* is left in CMakeLists.txt and the replacement of each one found is there.
C7_ConditionalPatch ==
    LastCallIsBuild =>
        /\ ~options.with_thirdparty_containers =>
              /\ config_h = pre_config_h
              /\ error # Raised("ConanException", 144)
        /\ (options.with_thirdparty_containers
              /\ str_contains(pre_config_h, RobinHoodInclude)) =>
              /\ ~str_contains(config_h, RobinHoodInclude)
              /\ str_contains(config_h, RobinHoodSystemInclude)
              /\ Len(config_h) < Len(pre_config_h)
              /\ error # Raised("ConanException", 144)
        /\ (options.with_thirdparty_containers
              /\ ~str_contains(pre_config_h, RobinHoodInclude)) =>
              /\ config_h = pre_config_h
              /\ error = Raised("ConanException", 144)
        /\ \A i \in 1..Len(replace_mapping) :
              /\ ~str_contains(cmakelists, replace_mapping[i][1])
              /\ str_contains(pre_cmakelists, replace_mapping[i][1])
                    => str_contains(cmakelists, replace_mapping[i][2])

C7_Witness ==
    /\ LastCallIsBuild
    /\ ~options.with_thirdparty_containers
    /\ ~str_contains(pre_config_h, RobinHoodInclude)
    /\ str_contains(pre_cmakelists, replace_mapping[9][1])
    /\ error = NoError

CMakeEvents == {"cmake configure", "cmake build", "cmake install"}

\* The settings make validate() raise.
InvalidConfiguration ==
    \/ cppstd \in {"98", "gnu98", "11", "gnu11"}
    \/ /\ compiler \in DOMAIN _minimum_compilers_version
       /\ PrefixBelow(VersionNumbers(compiler_version),
                      VersionNumbers(_minimum_compilers_version[compiler]))

\* The strict Config.h rule finds nothing to replace in the upstream file.
StrictPatchMisses ==
    /\ requested.with_thirdparty_containers
    /\ ~str_contains(tarball.config_h, RobinHoodInclude)

\* C8: in a run of the hooks in their fixed order, when validate() raises
\* (cppstd below 14, or the compiler below its minimum) or the strict
\* Config.h rule finds no match text, CMake is never configured, built or
\* installed: the run ends failed with no CMake step in its log.
C8_FailBeforeCMake ==
    /\ (InvalidConfiguration \/ StrictPatchMisses) =>
          /\ \A i \in DOMAIN log : log[i] \notin CMakeEvents
          /\ ~has_cmake
          /\ pc \notin {"package", "package_info", "done"}
    /\ (pc = "failed" /\ error.line \in {64, 79, 144}) =>
          (InvalidConfiguration \/ StrictPatchMisses)

C8_Witness ==
    /\ pc = "failed"
    /\ error = Raised("ConanException", 144)
    /\ log = <<"build()", "patch CMakeLists.txt">>

\* C9: generate() looks up only dependencies that requirements() declared
\* and so never fails on a lookup; and once requirements() has run, freetype
\* is declared iff font_interface is freetype, lua iff with_lua_bindings, and
\* robin-hood-hashing iff with_thirdparty_containers.
C9_GenerateReadsDeclared ==
    /\ looked_up \subseteq { r.name : r \in requires }
    /\ error.type # "KeyError"
    /\ pc \notin {"config_options", "configure", "requirements"} =>
          /\ "freetype" \in { r.name : r \in requires }
                <=> options.font_interface = "freetype"
          /\ "lua" \in { r.name : r \in requires } <=> options.with_lua_bindings
          /\ "robin-hood-hashing" \in { r.name : r \in requires }
                <=> options.with_thirdparty_containers

Count(e) == Cardinality({ i \in DOMAIN log : log[i] = e })

\* _configure_cmake() has been called: by package(), or by a build() whose
\* _patch_sources() completed.
ConfigureCmakeCalled ==
    \E i \in DOMAIN log :
        \/ log[i] = "package()"
        \/ (log[i] = "build()" /\ PatchCompletedAt(i))

\* C10: over any sequence of build() and package() calls on one instance,
\* CMake's configure step has run exactly once as soon as _configure_cmake()
\* has been called and not at all before, it comes before every CMake build
\* or install, and when it runs within a build() call the CMakeLists.txt
\* patch, and the Config.h patch if there is one, come between the call and it.
C10_ConfigureOnce ==
    /\ Count("cmake configure") = IF ConfigureCmakeCalled THEN 1 ELSE 0
    /\ \A i \in DOMAIN log :
          log[i] \in {"cmake build", "cmake install"} =>
              \E j \in 1..(i - 1) : log[j] = "cmake configure"
    /\ \A i \in DOMAIN log :
          log[i] = "cmake configure" =>
              \E j \in 1..(i - 1) :
                  /\ IsCall(log[j])
                  /\ \A k \in (j + 1)..(i - 1) : ~IsCall(log[k])
                  /\ log[j] = "package()" => i = j + 1
                  /\ log[j] = "build()" =>
                        /\ PatchCompletedAt(j)
                        /\ i = j + (IF options.with_thirdparty_containers
                                    THEN 3 ELSE 2)

C10_Witness ==
    /\ calls = 2
    /\ Count("build()") = 2
    /\ Count("cmake configure") = 1
    /\ Count("cmake build") = 2

=============================================================================
